---- MODULE Spec2Model ----
(***************************************************************************)
(* State-machine model of three view components of matrix-react-sdk:       *)
(*   - FilePanel   (components/structures/FilePanel.js)                    *)
(*   - Entry of the ForwardDialog (components/views/dialogs/ForwardDialog) *)
(*   - CallEvent   (call event tile bound to a CallEventGrouper)           *)
(* Every handler is one action; a suspended async function is a program    *)
(* counter plus its captured locals; promises settle in separate actions.  *)
(***************************************************************************)
EXTENDS Integers, FiniteSets, Sequences, TLC

\* ---- bounds ----
NumRooms == 2
MaxInFlight == 2
NumEntries == 2
NumGrouperStates == 7

Rooms == 1..NumRooms
Entries == 1..NumEntries
GrouperStates == 1..NumGrouperStates

\* null (no timeline set, no room)
NULL == 0

VARIABLES
    \* client session / event index peg, read by FilePanel
    knownRooms,          \* rooms for which client.getRoom() returns a room
    encryptedRooms,      \* rooms for which client.isRoomEncrypted() is true
    eventIndex,          \* EventIndexPeg.get() !== null
    isGuest,             \* client.isGuest()
    filteredTimelineSets,\* rooms whose file-filtered timeline set has been created
    populatedTimelines,  \* rooms whose file timeline the index has populated
    indexPaginations,    \* per window: paginations in flight through the event index
    windowPaginations,   \* per window: paginations in flight through timelineWindow.paginate
    \* FilePanel instance
    roomId,              \* props.roomId
    phase,               \* "constructed" | "mounted" | "unmounted"
    timelineSet,         \* state.timelineSet (NULL or the room the set belongs to)
    noRoom,              \* this.noRoom: "undefined" | "true" | "false"
    rendered,            \* what the last render() put on screen
    pc,                  \* position of the updateTimelineSet call
    u_roomId,            \* updateTimelineSet: argument roomId
    u_eventIndex,        \* updateTimelineSet: const eventIndex (non-null?)
    filterCalls,         \* calls of client.getOrCreateFilter
    ftsCalls,            \* calls of room.getOrCreateFilteredTimelineSet
    populateCalls,       \* calls of eventIndex.populateFileTimeline
    setStateCalls,       \* calls of this.setState({timelineSet})
    errorsLogged,        \* calls of console.error
    \* ForwardDialog entries
    maySendMessage,      \* room.maySendMessage() of the entry's room
    sendState,           \* useState<SendState>
    entryMounted,
    sendCalls,           \* invocations of props.send()
    sendPending,         \* the promise of send() has not settled
    \* CallEvent tile and its grouper
    grouperState,        \* callEventGrouper.getState()
    listeners,           \* StateChanged listeners of this tile on the grouper
    callState,           \* state.callState
    cePhase              \* "constructed" | "mounted" | "unmounted"

envVars == <<knownRooms, encryptedRooms, eventIndex, isGuest, filteredTimelineSets,
             populatedTimelines, indexPaginations, windowPaginations>>
panelVars == <<roomId, phase, timelineSet, noRoom, rendered, pc, u_roomId, u_eventIndex,
               filterCalls, ftsCalls, populateCalls, setStateCalls, errorsLogged>>
entryVars == <<maySendMessage, sendState, entryMounted, sendCalls, sendPending>>
callVars == <<grouperState, listeners, callState, cePhase>>
vars == <<envVars, panelVars, entryVars, callVars>>

(***************************************************************************)
(* FilePanel                                                               *)
(***************************************************************************)

\* client.getRoom(roomId)
getRoom(r) == IF r \in knownRooms THEN r ELSE NULL

\* client.isRoomEncrypted(roomId)
isRoomEncrypted(r) == r \in encryptedRooms

\* render(): which of the four views is returned
render(guest, noroom, ts) ==
    IF guest THEN "guest"
    ELSE IF noroom = "true" THEN "notJoined"
    ELSE IF ts # NULL THEN "feed"
    ELSE "loading"

\* this.setState({timelineSet: ts}); React drops the update of an unmounted
\* component, a mounted one is re-rendered
setState(ts) ==
    /\ setStateCalls' = setStateCalls + 1
    /\ IF phase = "mounted"
          THEN /\ timelineSet' = ts
               /\ rendered' = render(isGuest, noRoom, ts)
          ELSE UNCHANGED <<timelineSet, rendered>>

\* fetchFileEventsServer up to its await: the filter is built and
\* client.getOrCreateFilter is called
fetchFileEventsServer ==
    /\ filterCalls' = filterCalls + 1
    /\ pc' = "awaitFilter"

\* faulty variant of updateTimelineSet: the "if (room)" check is missing
updateTimelineSetNoRoomCheck(r) ==
    /\ u_roomId' = r
    /\ u_eventIndex' = eventIndex
    /\ noRoom' = IF getRoom(r) = NULL THEN "true" ELSE "false"
    /\ fetchFileEventsServer
    /\ UNCHANGED errorsLogged

\* updateTimelineSet(roomId) up to its first suspension
updateTimelineSet(r) ==
    /\ u_roomId' = r
    /\ u_eventIndex' = eventIndex
    /\ noRoom' = IF getRoom(r) = NULL THEN "true" ELSE "false"
    /\ IF getRoom(r) # NULL
          THEN /\ fetchFileEventsServer
               /\ UNCHANGED errorsLogged
          ELSE /\ errorsLogged' = errorsLogged + 1
               /\ pc' = "noRoom"
               /\ UNCHANGED filterCalls

\* first render followed by componentDidMount
componentDidMount ==
    /\ phase = "constructed"
    /\ phase' = "mounted"
    /\ rendered' = render(isGuest, noRoom, timelineSet)
    /\ updateTimelineSet(roomId)
    /\ UNCHANGED <<envVars, roomId, timelineSet, ftsCalls, populateCalls, setStateCalls>>
    /\ UNCHANGED <<entryVars, callVars>>

\* the parent re-renders the panel, with the same or another roomId
receiveProps(r) ==
    /\ phase = "mounted"
    /\ roomId' = r
    /\ rendered' = render(isGuest, noRoom, timelineSet)
    /\ UNCHANGED <<envVars, phase, timelineSet, noRoom, pc, u_roomId, u_eventIndex,
                   filterCalls, ftsCalls, populateCalls, setStateCalls, errorsLogged>>
    /\ UNCHANGED <<entryVars, callVars>>

\* the panel is removed from the tree
unmount ==
    /\ phase = "mounted"
    /\ phase' = "unmounted"
    /\ rendered' = "none"
    /\ UNCHANGED <<envVars, roomId, timelineSet, noRoom, pc, u_roomId, u_eventIndex,
                   filterCalls, ftsCalls, populateCalls, setStateCalls, errorsLogged>>
    /\ UNCHANGED <<entryVars, callVars>>

\* faulty variant of needsPopulate: the index is never consulted
needsPopulateIgnored(r, idx) == FALSE

\* the condition under which updateTimelineSet populates from the index
needsPopulate(r, idx) == isRoomEncrypted(r) /\ idx

\* getOrCreateFilter resolved: fetchFileEventsServer resumes, sets the
\* filter id, obtains the room's filtered timeline set and returns it
filterResolved ==
    /\ pc = "awaitFilter"
    /\ ftsCalls' = ftsCalls + 1
    /\ filteredTimelineSets' = filteredTimelineSets \cup {u_roomId}
    /\ pc' = "fetchResolved"
    /\ UNCHANGED <<knownRooms, encryptedRooms, eventIndex, isGuest, populatedTimelines,
                   indexPaginations, windowPaginations>>
    /\ UNCHANGED <<roomId, phase, timelineSet, noRoom, rendered, u_roomId, u_eventIndex,
                   filterCalls, populateCalls, setStateCalls, errorsLogged>>
    /\ UNCHANGED <<entryVars, callVars>>

\* getOrCreateFilter rejected: fetchFileEventsServer rejects
filterRejected ==
    /\ pc = "awaitFilter"
    /\ pc' = "fetchRejected"
    /\ UNCHANGED <<envVars, roomId, phase, timelineSet, noRoom, rendered, u_roomId,
                   u_eventIndex, filterCalls, ftsCalls, populateCalls, setStateCalls,
                   errorsLogged>>
    /\ UNCHANGED <<entryVars, callVars>>

\* updateTimelineSet resumes after "await this.fetchFileEventsServer(room)":
\* the rest of the try block up to the next await or to setState
fetchFileEventsServerResolved ==
    /\ pc = "fetchResolved"
    /\ IF needsPopulate(u_roomId, u_eventIndex)
          THEN /\ populateCalls' = populateCalls + 1
               /\ pc' = "awaitPopulate"
               /\ UNCHANGED <<timelineSet, rendered, setStateCalls>>
          ELSE /\ setState(u_roomId)
               /\ pc' = "done"
               /\ UNCHANGED populateCalls
    /\ UNCHANGED envVars
    /\ UNCHANGED <<roomId, phase, noRoom, u_roomId, u_eventIndex, filterCalls, ftsCalls,
                   errorsLogged>>
    /\ UNCHANGED <<entryVars, callVars>>

\* updateTimelineSet resumes with the rejection of fetchFileEventsServer:
\* the catch block
fetchFileEventsServerRejected ==
    /\ pc = "fetchRejected"
    /\ errorsLogged' = errorsLogged + 1
    /\ pc' = "failed"
    /\ UNCHANGED <<envVars, roomId, phase, timelineSet, noRoom, rendered, u_roomId,
                   u_eventIndex, filterCalls, ftsCalls, populateCalls, setStateCalls>>
    /\ UNCHANGED <<entryVars, callVars>>

\* the event index has added its page to the live timeline and resolves the
\* promise of populateFileTimeline
populateFileTimelineCompleted ==
    /\ pc = "awaitPopulate"
    /\ populatedTimelines' = populatedTimelines \cup {u_roomId}
    /\ pc' = "populated"
    /\ UNCHANGED <<knownRooms, encryptedRooms, eventIndex, isGuest, filteredTimelineSets,
                   indexPaginations, windowPaginations>>
    /\ UNCHANGED <<roomId, phase, timelineSet, noRoom, rendered, u_roomId, u_eventIndex,
                   filterCalls, ftsCalls, populateCalls, setStateCalls, errorsLogged>>
    /\ UNCHANGED <<entryVars, callVars>>

\* updateTimelineSet resumes after "await eventIndex.populateFileTimeline": setState
populateResolved ==
    /\ pc = "populated"
    /\ setState(u_roomId)
    /\ pc' = "done"
    /\ UNCHANGED envVars
    /\ UNCHANGED <<roomId, phase, noRoom, u_roomId, u_eventIndex, filterCalls, ftsCalls,
                   populateCalls, errorsLogged>>
    /\ UNCHANGED <<entryVars, callVars>>

\* populateFileTimeline rejected: the catch block
populateRejected ==
    /\ pc = "awaitPopulate"
    /\ errorsLogged' = errorsLogged + 1
    /\ pc' = "failed"
    /\ UNCHANGED <<envVars, roomId, phase, timelineSet, noRoom, rendered, u_roomId,
                   u_eventIndex, filterCalls, ftsCalls, populateCalls, setStateCalls>>
    /\ UNCHANGED <<entryVars, callVars>>

InFlight(w) == indexPaginations[w] + windowPaginations[w]

RECURSIVE SumInFlight(_)
SumInFlight(n) == IF n = 0 THEN 0 ELSE InFlight(n) + SumInFlight(n - 1)

\* faulty variant of paginationSource: the null check of the index is missing
paginationSourceNoIndexCheck(r) ==
    IF isRoomEncrypted(r) THEN "index" ELSE "window"

\* the branch of onPaginationRequest
paginationSource(r) ==
    IF isRoomEncrypted(r) /\ eventIndex THEN "index" ELSE "window"

\* onPaginationRequest(timelineWindow, direction, limit), called by the
\* TimelinePanel of the displayed feed for the window over its timeline set
onPaginationRequest ==
    /\ phase = "mounted"
    /\ rendered = "feed"
    /\ SumInFlight(NumRooms) < MaxInFlight
    /\ IF paginationSource(roomId) = "index"
          THEN /\ indexPaginations' = [indexPaginations EXCEPT ![timelineSet] = @ + 1]
               /\ UNCHANGED windowPaginations
          ELSE /\ windowPaginations' = [windowPaginations EXCEPT ![timelineSet] = @ + 1]
               /\ UNCHANGED indexPaginations
    /\ UNCHANGED <<knownRooms, encryptedRooms, eventIndex, isGuest, filteredTimelineSets,
                   populatedTimelines>>
    /\ UNCHANGED <<panelVars, entryVars, callVars>>

\* the promise returned by eventIndex.paginateTimelineWindow settles
indexPaginationSettled(w) ==
    /\ indexPaginations[w] > 0
    /\ indexPaginations' = [indexPaginations EXCEPT ![w] = @ - 1]
    /\ UNCHANGED <<knownRooms, encryptedRooms, eventIndex, isGuest, filteredTimelineSets,
                   populatedTimelines, windowPaginations>>
    /\ UNCHANGED <<panelVars, entryVars, callVars>>

\* the promise returned by timelineWindow.paginate settles
windowPaginationSettled(w) ==
    /\ windowPaginations[w] > 0
    /\ windowPaginations' = [windowPaginations EXCEPT ![w] = @ - 1]
    /\ UNCHANGED <<knownRooms, encryptedRooms, eventIndex, isGuest, filteredTimelineSets,
                   populatedTimelines, indexPaginations>>
    /\ UNCHANGED <<panelVars, entryVars, callVars>>

\* the client learns of a room (getRoom starts returning it)
roomArrives(r) ==
    /\ r \notin knownRooms
    /\ knownRooms' = knownRooms \cup {r}
    /\ UNCHANGED <<encryptedRooms, eventIndex, isGuest, filteredTimelineSets,
                   populatedTimelines, indexPaginations, windowPaginations>>
    /\ UNCHANGED <<panelVars, entryVars, callVars>>

\* encryption is switched on in a room (it cannot be switched off)
encryptionEnabled(r) ==
    /\ r \in knownRooms
    /\ r \notin encryptedRooms
    /\ encryptedRooms' = encryptedRooms \cup {r}
    /\ UNCHANGED <<knownRooms, eventIndex, isGuest, filteredTimelineSets,
                   populatedTimelines, indexPaginations, windowPaginations>>
    /\ UNCHANGED <<panelVars, entryVars, callVars>>

\* the event index is initialised or closed (EventIndexPeg.get() changes)
eventIndexChanged ==
    /\ eventIndex' = ~eventIndex
    /\ UNCHANGED <<knownRooms, encryptedRooms, isGuest, filteredTimelineSets,
                   populatedTimelines, indexPaginations, windowPaginations>>
    /\ UNCHANGED <<panelVars, entryVars, callVars>>

(***************************************************************************)
(* ForwardDialog: Entry                                                    *)
(***************************************************************************)

\* faulty variant of disabled: the button is re-enabled after Sent and Failed
disabledOnlyWhileSending(e) == sendState[e] = "Sending"

\* disabled={sendState !== SendState.CanSend}
disabled(e) == sendState[e] # "CanSend"

\* setSendState(s); React drops the update of an unmounted component
setSendState(e, s) ==
    sendState' = IF entryMounted[e] THEN [sendState EXCEPT ![e] = s] ELSE sendState

\* onClick of the send button up to "await send()"; the button of a room
\* without send permission has an empty handler and is always disabled
onClick(e) ==
    /\ entryMounted[e]
    /\ maySendMessage[e]
    /\ ~disabled(e)
    /\ setSendState(e, "Sending")
    /\ sendCalls' = [sendCalls EXCEPT ![e] = @ + 1]
    /\ sendPending' = [sendPending EXCEPT ![e] = TRUE]
    /\ UNCHANGED <<maySendMessage, entryMounted>>
    /\ UNCHANGED <<envVars, panelVars, callVars>>

\* send() resolved
sendResolved(e) ==
    /\ sendPending[e]
    /\ sendPending' = [sendPending EXCEPT ![e] = FALSE]
    /\ setSendState(e, "Sent")
    /\ UNCHANGED <<maySendMessage, entryMounted, sendCalls>>
    /\ UNCHANGED <<envVars, panelVars, callVars>>

\* send() rejected
sendRejected(e) ==
    /\ sendPending[e]
    /\ sendPending' = [sendPending EXCEPT ![e] = FALSE]
    /\ setSendState(e, "Failed")
    /\ UNCHANGED <<maySendMessage, entryMounted, sendCalls>>
    /\ UNCHANGED <<envVars, panelVars, callVars>>

\* the entry leaves the list (dialog closed or filtered out by the query)
entryUnmount(e) ==
    /\ entryMounted[e]
    /\ entryMounted' = [entryMounted EXCEPT ![e] = FALSE]
    /\ UNCHANGED <<maySendMessage, sendState, sendCalls, sendPending>>
    /\ UNCHANGED <<envVars, panelVars, callVars>>

(***************************************************************************)
(* CallEvent                                                               *)
(***************************************************************************)

\* onStateChanged(newState): setState({callState: newState})
onStateChanged(s) ==
    callState' = IF cePhase = "mounted" THEN s ELSE callState

\* componentDidMount: addListener(StateChanged, this.onStateChanged)
callEventDidMount ==
    /\ cePhase = "constructed"
    /\ cePhase' = "mounted"
    /\ listeners' = listeners + 1
    /\ UNCHANGED <<grouperState, callState>>
    /\ UNCHANGED <<envVars, panelVars, entryVars>>

\* componentWillUnmount: removeListener(StateChanged, this.onStateChanged)
callEventWillUnmount ==
    /\ cePhase = "mounted"
    /\ cePhase' = "unmounted"
    /\ listeners' = listeners - 1
    /\ UNCHANGED <<grouperState, callState>>
    /\ UNCHANGED <<envVars, panelVars, entryVars>>

\* the grouper moves to another state and emits StateChanged to its listeners
grouperStateChanged(s) ==
    /\ s # grouperState
    /\ grouperState' = s
    /\ IF listeners > 0 THEN onStateChanged(s) ELSE UNCHANGED callState
    /\ UNCHANGED <<listeners, cePhase>>
    /\ UNCHANGED <<envVars, panelVars, entryVars>>

(***************************************************************************)
(* Initial states and specifications                                       *)
(***************************************************************************)

\* a constructed FilePanel (getInitialState) in some session
InitFilePanel ==
    /\ knownRooms \in SUBSET Rooms
    /\ encryptedRooms \in SUBSET knownRooms
    /\ eventIndex \in BOOLEAN
    /\ isGuest \in BOOLEAN
    /\ filteredTimelineSets = {}
    /\ populatedTimelines = {}
    /\ indexPaginations = [w \in Rooms |-> 0]
    /\ windowPaginations = [w \in Rooms |-> 0]
    /\ roomId \in Rooms
    /\ phase = "constructed"
    /\ timelineSet = NULL
    /\ noRoom = "undefined"
    /\ rendered = "none"
    /\ pc = "idle"
    /\ u_roomId = NULL
    /\ u_eventIndex = FALSE
    /\ filterCalls = 0
    /\ ftsCalls = 0
    /\ populateCalls = 0
    /\ setStateCalls = 0
    /\ errorsLogged = 0

\* one fixed FilePanel, for the specifications of the other components
IdleFilePanel ==
    /\ InitFilePanel
    /\ knownRooms = {}
    /\ eventIndex = FALSE
    /\ isGuest = FALSE
    /\ roomId = 1

\* freshly rendered entries: useState(SendState.CanSend)
InitEntries ==
    /\ maySendMessage \in [Entries -> BOOLEAN]
    /\ sendState = [e \in Entries |-> "CanSend"]
    /\ entryMounted = [e \in Entries |-> TRUE]
    /\ sendCalls = [e \in Entries |-> 0]
    /\ sendPending = [e \in Entries |-> FALSE]

IdleEntries ==
    /\ InitEntries
    /\ maySendMessage = [e \in Entries |-> TRUE]

\* a constructed CallEvent: callState = callEventGrouper.getState()
InitCallEvent ==
    /\ grouperState \in GrouperStates
    /\ callState = grouperState
    /\ listeners = 0
    /\ cePhase = "constructed"

IdleCallEvent ==
    /\ InitCallEvent
    /\ grouperState = 1

NextFilePanel ==
    \/ componentDidMount
    \/ \E r \in Rooms : receiveProps(r)
    \/ unmount
    \/ filterResolved
    \/ filterRejected
    \/ fetchFileEventsServerResolved
    \/ fetchFileEventsServerRejected
    \/ populateFileTimelineCompleted
    \/ populateResolved
    \/ populateRejected
    \/ onPaginationRequest
    \/ \E w \in Rooms : indexPaginationSettled(w)
    \/ \E w \in Rooms : windowPaginationSettled(w)
    \/ \E r \in Rooms : roomArrives(r)
    \/ \E r \in Rooms : encryptionEnabled(r)
    \/ eventIndexChanged

NextForward ==
    \/ \E e \in Entries : onClick(e)
    \/ \E e \in Entries : sendResolved(e)
    \/ \E e \in Entries : sendRejected(e)
    \/ \E e \in Entries : entryUnmount(e)

NextCallEvent ==
    \/ callEventDidMount
    \/ callEventWillUnmount
    \/ \E s \in GrouperStates : grouperStateChanged(s)

\* a FilePanel under test next to idle entries and an idle call tile
InitPanelSpec == InitFilePanel /\ IdleEntries /\ IdleCallEvent

InitForwardSpec == IdleFilePanel /\ InitEntries /\ IdleCallEvent

InitCallEventSpec == IdleFilePanel /\ IdleEntries /\ InitCallEvent

SpecFilePanel ==
    InitPanelSpec /\ [][NextFilePanel]_vars

\* promises settle eventually; nothing obliges the parent to re-render or
\* the session to change
FairSpecFilePanel ==
    /\ SpecFilePanel
    /\ WF_vars(filterResolved \/ filterRejected)
    /\ WF_vars(fetchFileEventsServerResolved)
    /\ WF_vars(fetchFileEventsServerRejected)
    /\ WF_vars(populateFileTimelineCompleted \/ populateRejected)
    /\ WF_vars(populateResolved)
    /\ WF_vars(\E w \in Rooms : indexPaginationSettled(w))
    /\ WF_vars(\E w \in Rooms : windowPaginationSettled(w))

SpecForward ==
    InitForwardSpec /\ [][NextForward]_vars

SpecCallEvent ==
    InitCallEventSpec /\ [][NextCallEvent]_vars

(***************************************************************************)
(* Properties                                                              *)
(***************************************************************************)

\* C1: when updateTimelineSet found no room for roomId (noRoom set), the
\* server is never contacted: getOrCreateFilter, getOrCreateFilteredTimelineSet
\* and populateFileTimeline have not been called, and state.timelineSet is null.
C1_NotJoinedNoServerContact ==
    noRoom = "true" =>
        /\ filterCalls = 0
        /\ ftsCalls = 0
        /\ populateCalls = 0
        /\ timelineSet = NULL

\* the acquisition has run for an absent room and ended in the no-room branch
C1_Witness ==
    /\ phase = "mounted"
    /\ pc = "noRoom"
    /\ noRoom = "true"
    /\ errorsLogged = 1

\* C2: once the panel is unmounted, no step calls setState({timelineSet}) or
\* touches the shared feed state (the room's filtered timeline sets, the
\* timelines the index populates).
C2_StaleCompletionDiscarded ==
    [][phase = "unmounted" =>
          /\ setStateCalls' = setStateCalls
          /\ filteredTimelineSets' = filteredTimelineSets
          /\ populateCalls' = populateCalls
          /\ populatedTimelines' = populatedTimelines]_vars

\* C3: on the step that makes the timeline set visible (state.timelineSet
\* leaves null): if the room is encrypted and the acquisition holds an event
\* index, populateFileTimeline was called and has completed for that set;
\* otherwise populateFileTimeline has not been called at all.
C3_PopulateBeforeExposure ==
    [][(timelineSet = NULL /\ timelineSet' # NULL) =>
          IF u_roomId \in encryptedRooms /\ u_eventIndex
             THEN /\ populateCalls' = 1
                  /\ timelineSet' \in populatedTimelines'
             ELSE /\ populateCalls' = 0
                  /\ timelineSet' \notin populatedTimelines']_vars

\* the feed of an encrypted room is displayed after the index populated it
C3_Witness ==
    /\ pc = "done"
    /\ rendered = "feed"
    /\ timelineSet \in encryptedRooms
    /\ timelineSet \in populatedTimelines
    /\ populateCalls = 1

\* C4: every pagination request starts exactly one pagination; it goes to the
\* event index iff the room of props.roomId is encrypted and the event index
\* is non-null when the request is made, and to timelineWindow.paginate
\* otherwise.
C4_PaginationRouting ==
    [][\A w \in Rooms :
          /\ indexPaginations'[w] > indexPaginations[w] =>
                /\ roomId \in encryptedRooms /\ eventIndex
                /\ indexPaginations'[w] = indexPaginations[w] + 1
                /\ windowPaginations' = windowPaginations
          /\ windowPaginations'[w] > windowPaginations[w] =>
                /\ ~(roomId \in encryptedRooms /\ eventIndex)
                /\ windowPaginations'[w] = windowPaginations[w] + 1
                /\ indexPaginations' = indexPaginations]_vars

\* a pagination of an encrypted room's feed is in flight through the index
C4_Witness ==
    /\ rendered = "feed"
    /\ roomId \in encryptedRooms
    /\ \E w \in Rooms : indexPaginations[w] > 0

\* C5: at most one pagination is in flight per timeline window.
C5_PaginationSerialized ==
    \A w \in Rooms : InFlight(w) <= 1

\* C6: after a failed acquisition there was exactly one attempt and one
\* report, state.timelineSet is null, and a mounted view shows an empty or
\* error state (neither the loading indicator nor a feed).
C6_FailureTerminalAndShown ==
    pc = "failed" =>
        /\ filterCalls = 1
        /\ errorsLogged = 1
        /\ timelineSet = NULL
        /\ phase = "mounted" => rendered \notin {"loading", "feed"}

\* C7: a mounted, non-guest panel whose acquisition found no room eventually
\* shows the not-joined message; a mounted panel always shows one of the
\* four views.
C7_NotJoinedVisible ==
    /\ [](phase = "mounted" => rendered \in {"guest", "notJoined", "loading", "feed"})
    /\ (phase = "mounted" /\ ~isGuest /\ noRoom = "true")
          ~> (rendered = "notJoined" \/ phase = "unmounted")

\* C8: whenever a feed is displayed, state.timelineSet belongs to the room
\* named by props.roomId.
C8_FeedMatchesProps ==
    rendered = "feed" => timelineSet = roomId

\* C9: sendState changes only along CanSend -> Sending -> Sent | Failed,
\* send() is invoked only from CanSend in a room that permits sending, at
\* most once per entry, and never for a room without send permission.
C9_SendStateMachine ==
    /\ [][\A e \in Entries :
             /\ sendState'[e] # sendState[e] =>
                   <<sendState[e], sendState'[e]>> \in
                      {<<"CanSend", "Sending">>, <<"Sending", "Sent">>,
                       <<"Sending", "Failed">>}
             /\ sendCalls'[e] # sendCalls[e] =>
                   /\ sendState[e] = "CanSend"
                   /\ sendState'[e] = "Sending"]_vars
    /\ [](\A e \in Entries :
             /\ sendCalls[e] <= 1
             /\ ~maySendMessage[e] => sendCalls[e] = 0
             /\ sendState[e] # "CanSend" => sendCalls[e] = 1)

\* one entry has sent, another has failed, each after a single send()
C9_Witness ==
    \E e, f \in Entries :
        /\ sendState[e] = "Sent" /\ sendCalls[e] = 1
        /\ sendState[f] = "Failed" /\ sendCalls[f] = 1

\* C10: the tile's listener is registered exactly while it is mounted, and
\* a mounted tile shows the grouper's current state.
C10_CallStateInSync ==
    /\ listeners = (IF cePhase = "mounted" THEN 1 ELSE 0)
    /\ cePhase = "mounted" => callState = grouperState

====
